---------------------------- MODULE Spec2Model ----------------------------
(***************************************************************************)
(* The employee directory of src/main.go (the variant with authorization,  *)
(* lines 1-562): cookie sessions, the access policy, the login flow, the   *)
(* authorization gate and the read operations on the employee table.       *)
(*                                                                         *)
(* A Go string is a sequence of characters; a character is a one-character *)
(* TLA+ string, and a Cyrillic letter is written "ru:<latin letter>"       *)
(* because a TLA+ string literal holds ASCII only.                         *)
(***************************************************************************)
EXTENDS Integers, Sequences, FiniteSets, TLC

\* ------------------------------------------------------------------------
\* Bounds of the model
\* ------------------------------------------------------------------------
\* Longest arbitrary (client-written) value of the usergroups cookie.
MaxForgedLen == 2
\* Longest search term drawn from TermChars.
MaxTermLen == 2
\* Longest group list the gateway returns.
MaxGroups == 2
\* Most rows the employee table holds.
MaxRows == 2
\* Most redirects a client follows in a row before it gives up.
MaxHops == 4

\* ------------------------------------------------------------------------
\* Characters and strings
\* ------------------------------------------------------------------------
Quote == "\""
Backslash == "\\"

\* Letter case, as far as the characters of the model go.
LowerMap ==
  ("A" :> "a") @@ ("B" :> "b") @@ ("S" :> "s") @@ ("I" :> "i") @@
  ("ru:A" :> "ru:a") @@ ("ru:I" :> "ru:i")

ToLower(c) == IF c \in DOMAIN LowerMap THEN LowerMap[c] ELSE c

LowerStr(s) == [i \in 1..Len(s) |-> ToLower(s[i])]

\* All sequences over S of length at most n.
SeqsUpTo(S, n) == UNION {[1..k -> S] : k \in 0..n}

\* needle occurs in hay as a contiguous substring (byte-exact).
Contains(hay, needle) ==
  \E i \in 0..(Len(hay) - Len(needle)) :
     \A j \in 1..Len(needle) : hay[i + j] = needle[j]

\* ------------------------------------------------------------------------
\* []string: a nil slice and an empty slice are different values for
\* encoding/json (null and []).
\* ------------------------------------------------------------------------
NilSlice == [isNil |-> TRUE, elems |-> <<>>]
Slice(elems) == [isNil |-> FALSE, elems |-> elems]
ElemSet(sl) == {sl.elems[i] : i \in 1..Len(sl.elems)}

\* ------------------------------------------------------------------------
\* encoding/json, for []string
\* ------------------------------------------------------------------------
RECURSIVE EscapeString(_)
\* The body of a JSON string: json.Marshal writes \" for a quote and \\ for a
\* backslash; the other characters of the model pass unchanged.
EscapeString(s) ==
  IF s = <<>> THEN <<>>
  ELSE (IF Head(s) \in {Quote, Backslash} THEN <<Backslash, Head(s)>> ELSE <<Head(s)>>)
       \o EscapeString(Tail(s))

RECURSIVE JoinQuoted(_)
JoinQuoted(elems) ==
  IF elems = <<>> THEN <<>>
  ELSE <<Quote>> \o EscapeString(Head(elems)) \o <<Quote>>
       \o (IF Len(elems) > 1 THEN <<",">> ELSE <<>>) \o JoinQuoted(Tail(elems))

\* json.Marshal(groups): null for a nil slice, else ["g1","g2"].
Marshal(groups) ==
  IF groups.isNil THEN <<"n", "u", "l", "l">>
  ELSE <<"[">> \o JoinQuoted(groups.elems) \o <<"]">>

\* The character an escape sequence \c stands for.
Unescape ==
  (Quote :> Quote) @@ (Backslash :> Backslash) @@ ("/" :> "/") @@
  ("n" :> "\n") @@ ("t" :> "\t") @@ ("r" :> "\r") @@ ("f" :> "\f")

ParseFail ==
  [ok |-> FALSE, next |-> 0, t |-> "none", s |-> <<>>, items |-> <<>>, terr |-> FALSE]

RECURSIVE skipWS(_, _)
skipWS(s, i) == IF i <= Len(s) /\ s[i] \in {" ", "\n", "\t", "\r"} THEN skipWS(s, i + 1) ELSE i

RECURSIVE scanString(_, _, _)
\* The string literal whose opening quote is before position i.
scanString(s, i, acc) ==
  IF i > Len(s) THEN ParseFail
  ELSE IF s[i] = Quote
       THEN [ok |-> TRUE, next |-> i + 1, t |-> "str", s |-> acc, items |-> <<>>,
             terr |-> FALSE]
  ELSE IF s[i] = Backslash
       THEN IF i + 1 > Len(s) \/ s[i + 1] \notin DOMAIN Unescape THEN ParseFail
            ELSE scanString(s, i + 2, Append(acc, Unescape[s[i + 1]]))
  ELSE IF s[i] \in {"\n", "\t", "\r", "\f"} THEN ParseFail
  ELSE scanString(s, i + 1, Append(acc, s[i]))

isNullAt(s, i) ==
  i + 3 <= Len(s) /\ <<s[i], s[i + 1], s[i + 2], s[i + 3]>> = <<"n", "u", "l", "l">>

RECURSIVE parseValue(_, _)
RECURSIVE parseElems(_, _, _, _)
\* One JSON value starting at position i0: a string, null or an array. An
\* array keeps, per element, what decoding it into a Go string leaves there:
\* the string itself, or "" for null and for an element of another type
\* (terr then records the UnmarshalTypeError).
parseValue(s, i0) ==
  LET i == skipWS(s, i0) IN
  IF i > Len(s) THEN ParseFail
  ELSE IF s[i] = Quote THEN scanString(s, i + 1, <<>>)
  ELSE IF s[i] = "["
       THEN LET j == skipWS(s, i + 1) IN
            IF j <= Len(s) /\ s[j] = "]"
            THEN [ok |-> TRUE, next |-> j + 1, t |-> "arr", s |-> <<>>, items |-> <<>>,
                  terr |-> FALSE]
            ELSE parseElems(s, i + 1, <<>>, FALSE)
  ELSE IF isNullAt(s, i)
       THEN [ok |-> TRUE, next |-> i + 4, t |-> "null", s |-> <<>>, items |-> <<>>,
             terr |-> FALSE]
  ELSE ParseFail

parseElems(s, i, acc, terr) ==
  LET v == parseValue(s, i) IN
  IF ~v.ok THEN ParseFail
  ELSE LET elem == IF v.t = "str" THEN v.s ELSE <<>>
           te == terr \/ v.t = "arr" \/ v.terr
           j == skipWS(s, v.next)
       IN IF j > Len(s) THEN ParseFail
          ELSE IF s[j] = ","
               THEN parseElems(s, j + 1, Append(acc, elem), te)
          ELSE IF s[j] = "]"
               THEN [ok |-> TRUE, next |-> j + 1, t |-> "arr", s |-> <<>>,
                     items |-> Append(acc, elem), terr |-> te]
          ELSE ParseFail

\* json.Unmarshal(data, &groups) with groups a nil []string: the value left
\* in groups and the error returned. A text that is not valid JSON leaves
\* groups nil; a valid text of another shape leaves what could be decoded.
Unmarshal(data) ==
  LET v == parseValue(data, 1) IN
  IF ~v.ok \/ skipWS(data, v.next) <= Len(data)
  THEN [groups |-> NilSlice, err |-> "syntax"]
  ELSE IF v.t = "null" THEN [groups |-> NilSlice, err |-> "none"]
  ELSE IF v.t = "str" THEN [groups |-> NilSlice, err |-> "type"]
  ELSE [groups |-> Slice(v.items), err |-> IF v.terr THEN "type" ELSE "none"]

\* ------------------------------------------------------------------------
\* Cookies and the session
\* ------------------------------------------------------------------------
SessionMaxAge == 3600

\* The letters, digits and marks url.QueryEscape leaves as they are.
Unreserved ==
  {"a", "b", "c", "d", "e", "f", "g", "h", "i", "j", "k", "l", "m",
   "n", "o", "p", "q", "r", "s", "t", "u", "v", "w", "x", "y", "z",
   "A", "B", "C", "D", "E", "F", "G", "H", "I", "J", "K", "L", "M",
   "N", "O", "P", "Q", "R", "S", "T", "U", "V", "W", "X", "Y", "Z",
   "0", "1", "2", "3", "4", "5", "6", "7", "8", "9",
   "-", "_", ".", "~"}

\* The other characters of the model; each is escaped as % and the hex digits
\* of its bytes, which the model writes as one token.
Escaped ==
  {Quote, Backslash, "[", "]", ",", "%", "+", ";", "\n", "\t", "\r", "\f", "/",
   "ru:A", "ru:a", "ru:d", "ru:m", "ru:i", "ru:n", "ru:s", "ru:t", "ru:r", "ru:o",
   "ru:y", "ru:e", "ru:c", "ru:ya"}
Hex(c) == "hex:" \o c
HexTokens == {Hex(c) : c \in Escaped}
Unhex(t) == CHOOSE c \in Escaped : Hex(c) = t

RECURSIVE QueryEscape(_)
\* url.QueryEscape, which c.SetCookie applies to the value: a space becomes +,
\* an unreserved character stays, any other becomes %XX.
QueryEscape(s) ==
  IF s = <<>> THEN <<>>
  ELSE (IF Head(s) = " " THEN <<"+">>
        ELSE IF Head(s) \in Unreserved THEN <<Head(s)>>
        ELSE <<"%", Hex(Head(s))>>)
       \o QueryEscape(Tail(s))

RECURSIVE unescape(_, _, _)
unescape(s, i, acc) ==
  IF i > Len(s) THEN [err |-> FALSE, value |-> acc]
  ELSE IF s[i] = "%"
       THEN IF i + 1 > Len(s) \/ s[i + 1] \notin HexTokens
            THEN [err |-> TRUE, value |-> <<>>]
            ELSE unescape(s, i + 2, Append(acc, Unhex(s[i + 1])))
  ELSE IF s[i] = "+" THEN unescape(s, i + 1, Append(acc, " "))
  ELSE unescape(s, i + 1, Append(acc, s[i]))

\* url.QueryUnescape: the error is for a % that no hex digits follow.
QueryUnescape(s) == unescape(s, 1, <<>>)

\* A cookie of the request as the client sent it, or its absence.
NoCookie == [present |-> FALSE, value |-> <<>>]
Cookie(v) == [present |-> TRUE, value |-> v]
NoCookies == [username |-> NoCookie, usergroups |-> NoCookie]

\* The bytes net/http does not accept in the value of a request cookie: a
\* cookie holding one is skipped when the Cookie header is read.
InvalidValueChars == {c \in Escaped : c \notin {"[", "]", ",", "%", "+", "/"}}

\* c.Cookie(name): http.ErrNoCookie when the request has no readable cookie
\* of the name; else the value, a pair of surrounding quotes removed, after
\* url.QueryUnescape, whose error c.Cookie drops (the value is then empty).
ctxCookie(ck) ==
  IF ~ck.present THEN [err |-> TRUE, value |-> <<>>]
  ELSE LET raw == ck.value
           bare == IF Len(raw) > 1 /\ raw[1] = Quote /\ raw[Len(raw)] = Quote
                   THEN SubSeq(raw, 2, Len(raw) - 1) ELSE raw
       IN IF \E i \in 1..Len(bare) : bare[i] \in InvalidValueChars
          THEN [err |-> TRUE, value |-> <<>>]
          ELSE [err |-> FALSE, value |-> QueryUnescape(bare).value]

\* var session UserSession
ZeroSession == [Username |-> <<>>, Groups |-> NilSlice, LoggedIn |-> FALSE]

\* getSession: both cookies present make the session logged in; the error
\* json.Unmarshal returns is not looked at.
getSession(cookies) ==
  LET username == ctxCookie(cookies.username)
      groupsCookie == ctxCookie(cookies.usergroups)
  IN IF username.err THEN ZeroSession
     ELSE IF groupsCookie.err THEN ZeroSession
     ELSE [Username |-> username.value,
           Groups   |-> Unmarshal(groupsCookie.value).groups,
           LoggedIn |-> TRUE]

\* setSession writing the username twice: the usergroups cookie holds the
\* name as JSON text instead of the group list.
setSession_GroupsLost(username, groups) ==
  << [name |-> "username", value |-> QueryEscape(username), maxAge |-> SessionMaxAge],
     [name |-> "usergroups", value |-> QueryEscape(Marshal(Slice(<<username>>))),
      maxAge |-> SessionMaxAge] >>

\* What a handler writes: the Set-Cookie headers of setSession, each value as
\* c.SetCookie escapes it.
setSession(username, groups) ==
  << [name |-> "username", value |-> QueryEscape(username), maxAge |-> SessionMaxAge],
     [name |-> "usergroups", value |-> QueryEscape(Marshal(groups)),
      maxAge |-> SessionMaxAge] >>

\* clearSession: both cookies rewritten empty with MaxAge -1 (delete now).
clearSession ==
  << [name |-> "username", value |-> <<>>, maxAge |-> -1],
     [name |-> "usergroups", value |-> <<>>, maxAge |-> -1] >>

RECURSIVE ApplySetCookies(_, _)
\* The client's cookie store after a response: a cookie with a positive
\* MaxAge is stored under its name, one with MaxAge < 0 is removed.
ApplySetCookies(jarNow, headers) ==
  IF headers = <<>> THEN jarNow
  ELSE LET h == Head(headers)
           stored == IF h.maxAge > 0 THEN Cookie(h.value) ELSE NoCookie
       IN ApplySetCookies([jarNow EXCEPT ![h.name] = stored], Tail(headers))

\* ------------------------------------------------------------------------
\* Access policy
\* ------------------------------------------------------------------------
DomainAdminsRu ==
  <<"ru:A", "ru:d", "ru:m", "ru:i", "ru:n", "ru:i", "ru:s", "ru:t", "ru:r", "ru:a",
    "ru:t", "ru:o", "ru:r", "ru:y", " ", "ru:d", "ru:o", "ru:m", "ru:e", "ru:n", "ru:a">>
SysAdmins == <<"s", "y", "s", ".", "a", "d", "m", "i", "n", "s">>
AdministrationRu ==
  <<"ru:A", "ru:d", "ru:m", "ru:i", "ru:n", "ru:i", "ru:s", "ru:t", "ru:r", "ru:a",
    "ru:c", "ru:i", "ru:ya">>

\* allowedGroups := []string{...}
allowedGroups == <<DomainAdminsRu, SysAdmins, AdministrationRu>>

\* hasAccess compared without regard to letter case.
hasAccess_IgnoreCase(groups) ==
  \E i \in 1..Len(groups.elems) : \E j \in 1..Len(allowedGroups) :
     LowerStr(groups.elems[i]) = LowerStr(allowedGroups[j])

\* hasAccess: some userGroup == some allowedGroup.
hasAccess(groups) ==
  \E i \in 1..Len(groups.elems) : \E j \in 1..Len(allowedGroups) :
     groups.elems[i] = allowedGroups[j]

\* ------------------------------------------------------------------------
\* The identity gateway, as checkAuth sees it
\* ------------------------------------------------------------------------
\* checkAuth: nil and an error when the request cannot be built or sent or the
\* body does not decode into AuthResponse; else the decoded response. The
\* HTTP status of the reply is not looked at.
checkAuth(reply) ==
  IF reply.kind \in {"request_error", "transport_error", "undecodable"}
  THEN [err |-> TRUE, Success |-> FALSE, Groups |-> NilSlice]
  ELSE [err |-> FALSE, Success |-> reply.success, Groups |-> reply.groups]

\* ------------------------------------------------------------------------
\* Responses
\* ------------------------------------------------------------------------
NoResponse ==
  [status |-> 0, location |-> "", view |-> "", error |-> "", employees |-> <<>>,
   setCookies |-> <<>>, username |-> <<>>, searchQuery |-> <<>>, activeCount |-> 0]

Redirect(to) == [NoResponse EXCEPT !.status = 302, !.location = to]
LoginPage(msg) == [NoResponse EXCEPT !.status = 200, !.view = "login.html", !.error = msg]
JSONError(code, msg) == [NoResponse EXCEPT !.status = code, !.view = "json", !.error = msg]

\* What a handler did besides answering: the store queries it issued, the
\* store-layer error that happened (whether or not the code saw it), and the
\* calls to the gateway.
NoEffects == [handler |-> "none", queries |-> <<>>, storeErr |-> "none", gatewayCalls |-> 0]

\* ------------------------------------------------------------------------
\* Login, logout
\* ------------------------------------------------------------------------
MsgMissing == "enter login and password"
MsgGateway == "authorization server connection error"
MsgRejected == "check login or password, authorization error"
MsgDenied == "ask the administrator for access"

\* loginHandler that looks at the username cookie only.
loginHandler_UsernameOnly(cookies) ==
  IF ~ctxCookie(cookies.username).err THEN Redirect("/") ELSE LoginPage("")

\* loginHandler (GET /login)
loginHandler(cookies) ==
  IF getSession(cookies).LoggedIn THEN Redirect("/") ELSE LoginPage("")

\* loginPostHandler without the hasAccess check.
loginPostHandler_NoAccessCheck(username, password, reply) ==
  IF username = <<>> \/ password = <<>>
  THEN [resp |-> LoginPage(MsgMissing),
        effects |-> [NoEffects EXCEPT !.handler = "loginPostHandler"]]
  ELSE LET authResp == checkAuth(reply)
           called == [NoEffects EXCEPT !.handler = "loginPostHandler", !.gatewayCalls = 1]
       IN IF authResp.err THEN [resp |-> LoginPage(MsgGateway), effects |-> called]
          ELSE IF ~authResp.Success
               THEN [resp |-> LoginPage(MsgRejected), effects |-> called]
          ELSE [resp |-> [Redirect("/") EXCEPT
                            !.setCookies = setSession(username, authResp.Groups)],
                effects |-> called]

\* loginPostHandler reporting a failed gateway call as rejected credentials.
loginPostHandler_GatewayAsRejected(username, password, reply) ==
  IF username = <<>> \/ password = <<>>
  THEN [resp |-> LoginPage(MsgMissing),
        effects |-> [NoEffects EXCEPT !.handler = "loginPostHandler"]]
  ELSE LET authResp == checkAuth(reply)
           called == [NoEffects EXCEPT !.handler = "loginPostHandler", !.gatewayCalls = 1]
       IN IF authResp.err \/ ~authResp.Success
          THEN [resp |-> LoginPage(MsgRejected), effects |-> called]
          ELSE IF ~hasAccess(authResp.Groups)
               THEN [resp |-> LoginPage(MsgDenied), effects |-> called]
          ELSE [resp |-> [Redirect("/") EXCEPT
                            !.setCookies = setSession(username, authResp.Groups)],
                effects |-> called]

\* loginPostHandler (POST /login)
loginPostHandler(username, password, reply) ==
  IF username = <<>> \/ password = <<>>
  THEN [resp |-> LoginPage(MsgMissing),
        effects |-> [NoEffects EXCEPT !.handler = "loginPostHandler"]]
  ELSE LET authResp == checkAuth(reply)
           called == [NoEffects EXCEPT !.handler = "loginPostHandler", !.gatewayCalls = 1]
       IN IF authResp.err THEN [resp |-> LoginPage(MsgGateway), effects |-> called]
          ELSE IF ~authResp.Success
               THEN [resp |-> LoginPage(MsgRejected), effects |-> called]
          ELSE IF ~hasAccess(authResp.Groups)
               THEN [resp |-> LoginPage(MsgDenied), effects |-> called]
          ELSE [resp |-> [Redirect("/") EXCEPT
                            !.setCookies = setSession(username, authResp.Groups)],
                effects |-> called]

\* logoutHandler with the cookies rewritten for another hour instead of removed.
logoutHandler_KeepsCookies ==
  [Redirect("/login") EXCEPT
     !.setCookies = << [name |-> "username", value |-> <<>>, maxAge |-> SessionMaxAge],
                        [name |-> "usergroups", value |-> <<>>, maxAge |-> SessionMaxAge] >>]

\* logoutHandler (GET /logout)
logoutHandler == [Redirect("/login") EXCEPT !.setCookies = clearSession]

\* ------------------------------------------------------------------------
\* The authorization gate
\* ------------------------------------------------------------------------
\* authRequired that redirects and forgets c.Abort().
authRequired_NoAbort(cookies) ==
  IF ~getSession(cookies).LoggedIn
  THEN [aborted |-> FALSE, resp |-> Redirect("/login")]
  ELSE [aborted |-> FALSE, resp |-> NoResponse]

\* authRequired that also asks hasAccess for the groups of the session.
authRequired_ChecksAccess(cookies) ==
  IF ~getSession(cookies).LoggedIn \/ ~hasAccess(getSession(cookies).Groups)
  THEN [aborted |-> TRUE, resp |-> Redirect("/login")]
  ELSE [aborted |-> FALSE, resp |-> NoResponse]

\* authRequired: redirect to /login and abort, or c.Next().
authRequired(cookies) ==
  IF ~getSession(cookies).LoggedIn
  THEN [aborted |-> TRUE, resp |-> Redirect("/login")]
  ELSE [aborted |-> FALSE, resp |-> NoResponse]

\* ------------------------------------------------------------------------
\* The employee table
\* ------------------------------------------------------------------------
\* A row: the columns of CREATE TABLE, with nulls the set of columns that
\* hold NULL (middle_name, email, building, comments and status may).
\* created_at is left out: no operation here reads it.
StatusWorks == <<"ru:r", "ru:a", "ru:b", "ru:o", "ru:t", "ru:a", "ru:e", "ru:t">>
StatusFired == <<"ru:u", "ru:v", "ru:o", "ru:l", "ru:e", "ru:n">>
BuildingEverywhere == <<"ru:V", "ru:e", "ru:z", "ru:d", "ru:e">>

SearchColumns == {"last_name", "first_name", "middle_name", "position", "phone", "email"}
OtherColumns == {"building", "comments", "status"}
NullableColumns == {"middle_name", "email", "building", "comments", "status"}

Row(id, last, first, middle, position, phone, email, building, comments, status, nulls) ==
  [id |-> id, last_name |-> last, first_name |-> first, middle_name |-> middle,
   position |-> position, phone |-> phone, email |-> email, building |-> building,
   comments |-> comments, status |-> status, nulls |-> nulls]

\* var emp Employee
ZeroEmployee ==
  [ID |-> 0, LastName |-> <<>>, FirstName |-> <<>>, MiddleName |-> <<>>,
   Position |-> <<>>, Phone |-> <<>>, Email |-> <<>>, Building |-> <<>>,
   Comments |-> <<>>, Status |-> <<>>]

\* rows.Scan into the fields of an Employee: a NULL column cannot be stored
\* in a Go string and fails the scan.
Scan(row) ==
  IF row.nulls # {} THEN [err |-> TRUE, emp |-> ZeroEmployee]
  ELSE [err |-> FALSE,
        emp |-> [ID |-> row.id, LastName |-> row.last_name, FirstName |-> row.first_name,
                 MiddleName |-> row.middle_name, Position |-> row.position,
                 Phone |-> row.phone, Email |-> row.email, Building |-> row.building,
                 Comments |-> row.comments, Status |-> row.status]]

\* The order of characters under the table's collation.
CollationOrder == <<" ", "%", "_", "a", "A", "b", "B", "c", "d">>
Rank(c) == IF \E i \in 1..Len(CollationOrder) : CollationOrder[i] = c
           THEN CHOOSE i \in 1..Len(CollationOrder) : CollationOrder[i] = c
           ELSE 0

RECURSIVE StrLess(_, _)
StrLess(a, b) ==
  IF b = <<>> THEN FALSE
  ELSE IF a = <<>> THEN TRUE
  ELSE IF Rank(Head(a)) # Rank(Head(b)) THEN Rank(Head(a)) < Rank(Head(b))
  ELSE StrLess(Tail(a), Tail(b))

\* ORDER BY last_name, first_name: r may not come after q.
KeyLessEq(r, q) ==
  \/ StrLess(r.last_name, q.last_name)
  \/ /\ r.last_name = q.last_name
     /\ (StrLess(r.first_name, q.first_name) \/ r.first_name = q.first_name)

\* The orders in which ORDER BY last_name, first_name may return the rows of
\* a table: rows with equal keys come in any order.
OrderedBy(rows) ==
  {p \in [1..Cardinality(rows) -> rows] :
     /\ \A i, j \in 1..Cardinality(rows) : i # j => p[i] # p[j]
     /\ \A i, j \in 1..Cardinality(rows) : i < j => KeyLessEq(p[i], p[j])}

RECURSIVE like(_, _, _, _)
\* LIKE: s from position i matches pattern p from position j. % is any run of
\* characters, _ any one character, a backslash makes the next pattern
\* character literal; ILIKE compares letters without regard to case.
like(s, i, p, j) ==
  IF j > Len(p) THEN i > Len(s)
  ELSE IF p[j] = "%"
       THEN like(s, i, p, j + 1) \/ (i <= Len(s) /\ like(s, i + 1, p, j))
  ELSE IF p[j] = "_"
       THEN i <= Len(s) /\ like(s, i + 1, p, j + 1)
  ELSE IF p[j] = Backslash /\ j < Len(p)
       THEN i <= Len(s) /\ ToLower(s[i]) = ToLower(p[j + 1]) /\ like(s, i + 1, p, j + 2)
  ELSE i <= Len(s) /\ ToLower(s[i]) = ToLower(p[j]) /\ like(s, i + 1, p, j + 1)

ILike(s, pattern) == like(s, 1, pattern, 1)

\* WHERE last_name ILIKE $1 OR ... OR email ILIKE $1 (NULL ILIKE $1 is not true).
MatchesWhere(row, pattern) ==
  \E col \in SearchColumns : col \notin row.nulls /\ ILike(row[col], pattern)

\* What happens in the store while a query is served: nothing, the query
\* fails, or the connection is lost after `after` rows were delivered.
NoFault == [kind |-> "none", after |-> 0]
Faults ==
  {NoFault, [kind |-> "query", after |-> 0]}
  \cup {[kind |-> "iter", after |-> k] : k \in 0..MaxRows}

RECURSIVE readRows(_, _, _, _)
\* for rows.Next() { rows.Scan(...); append }: rows.Next() is false at the end
\* of the result set and also when fetching the next row fails; rows.Err()
\* is not asked, so both end the loop alike.
readRows(rs, i, acc, fault) ==
  IF i > Len(rs) \/ (fault.kind = "iter" /\ i > fault.after)
  THEN [employees |-> acc, err |-> FALSE,
        storeErr |-> IF fault.kind = "iter" THEN "iter" ELSE "none"]
  ELSE IF Scan(rs[i]).err
       THEN [employees |-> <<>>, err |-> TRUE, storeErr |-> "scan"]
  ELSE readRows(rs, i + 1, Append(acc, Scan(rs[i]).emp), fault)

\* getEmployees over the table in the order `sorted` the store returns it.
getEmployees(sorted, fault) ==
  IF fault.kind = "query"
  THEN [employees |-> <<>>, err |-> TRUE, storeErr |-> "query"]
  ELSE readRows(sorted, 1, <<>>, fault)

\* searchEmployees: the same, WHERE ... ILIKE '%' + query + '%'.
searchEmployees(sorted, query, fault) ==
  IF fault.kind = "query"
  THEN [employees |-> <<>>, err |-> TRUE, storeErr |-> "query"]
  ELSE readRows(SelectSeq(sorted, LAMBDA r : MatchesWhere(r, <<"%">> \o query \o <<"%">>)),
                1, <<>>, fault)

\* ------------------------------------------------------------------------
\* The handlers of the protected routes
\* ------------------------------------------------------------------------
StoreError == "store error"
MsgInvalidID == "Invalid ID"
MsgNotFound == "Employee not found"

ActiveCount(employees) ==
  Cardinality({i \in 1..Len(employees) : employees[i].Status = StatusWorks})

Effects(handler, queries, storeErr) ==
  [handler |-> handler, queries |-> queries, storeErr |-> storeErr, gatewayCalls |-> 0]

IndexPage(session, employees, query) ==
  [NoResponse EXCEPT !.status = 200, !.view = "index.html", !.employees = employees,
                     !.username = session.Username, !.searchQuery = query,
                     !.activeCount = ActiveCount(employees)]

\* indexHandler (GET /)
indexHandler(session, sorted, fault) ==
  LET r == getEmployees(sorted, fault) IN
  [resp |-> IF r.err THEN JSONError(500, StoreError)
            ELSE IndexPage(session, r.employees, <<>>),
   effects |-> Effects("indexHandler", <<"getEmployees">>, r.storeErr)]

\* searchHandler that sends every term, the empty one too, to searchEmployees.
searchHandler_NoShortCircuit(session, query, sorted, fault) ==
  LET r == searchEmployees(sorted, query, fault) IN
  [resp |-> IF r.err THEN JSONError(500, StoreError)
            ELSE IndexPage(session, r.employees, query),
   effects |-> Effects("searchHandler", <<"searchEmployees">>, r.storeErr)]

\* searchHandler (GET /search?q=)
searchHandler(session, query, sorted, fault) ==
  IF query = <<>>
  THEN [indexHandler(session, sorted, fault) EXCEPT !.effects.handler = "searchHandler"]
  ELSE LET r == searchEmployees(sorted, query, fault) IN
       [resp |-> IF r.err THEN JSONError(500, StoreError)
                 ELSE IndexPage(session, r.employees, query),
        effects |-> Effects("searchHandler", <<"searchEmployees">>, r.storeErr)]

\* apiEmployeesHandler (GET /api/employees)
apiEmployeesHandler(sorted, fault) ==
  LET r == getEmployees(sorted, fault) IN
  [resp |-> IF r.err THEN JSONError(500, StoreError)
            ELSE [NoResponse EXCEPT !.status = 200, !.view = "json",
                                    !.employees = r.employees],
   effects |-> Effects("apiEmployeesHandler", <<"getEmployees">>, r.storeErr)]

DigitValue ==
  ("0" :> 0) @@ ("1" :> 1) @@ ("2" :> 2) @@ ("3" :> 3) @@ ("4" :> 4) @@
  ("5" :> 5) @@ ("6" :> 6) @@ ("7" :> 7) @@ ("8" :> 8) @@ ("9" :> 9)

RECURSIVE digitsValue(_, _)
digitsValue(s, acc) ==
  IF s = <<>> THEN acc ELSE digitsValue(Tail(s), 10 * acc + DigitValue[Head(s)])

\* strconv.Atoi: an optional sign and at least one decimal digit (the ids of
\* the model are far from the range of int).
Atoi(s) ==
  LET signed == s # <<>> /\ Head(s) \in {"+", "-"}
      digits == IF signed THEN Tail(s) ELSE s
  IN IF digits = <<>> \/ \E i \in 1..Len(digits) : digits[i] \notin DOMAIN DigitValue
     THEN [err |-> TRUE, n |-> 0]
     ELSE [err |-> FALSE,
           n |-> IF signed /\ Head(s) = "-" THEN 0 - digitsValue(digits, 0)
                 ELSE digitsValue(digits, 0)]

\* db.QueryRow(... WHERE id = $1).Scan(...): sql.ErrNoRows when no row has
\* the id, the query's error when it fails, the scan's error on a NULL.
queryRowScan(rows, id, fault) ==
  IF fault.kind # "none"
  THEN [err |-> TRUE, emp |-> ZeroEmployee, storeErr |-> "query"]
  ELSE IF ~\E r \in rows : r.id = id
       THEN [err |-> TRUE, emp |-> ZeroEmployee, storeErr |-> "none"]
  ELSE LET sc == Scan(CHOOSE r \in rows : r.id = id) IN
       [err |-> sc.err, emp |-> sc.emp, storeErr |-> IF sc.err THEN "scan" ELSE "none"]

\* getEmployeeHandler (GET /api/employees/:id)
getEmployeeHandler(idStr, rows, fault) ==
  LET id == Atoi(idStr) IN
  IF id.err
  THEN [resp |-> JSONError(400, MsgInvalidID),
        effects |-> Effects("getEmployeeHandler", <<>>, "none")]
  ELSE LET r == queryRowScan(rows, id.n, fault) IN
       [resp |-> IF r.err THEN JSONError(404, MsgNotFound)
                 ELSE [NoResponse EXCEPT !.status = 200, !.view = "json",
                                         !.employees = <<r.emp>>],
        effects |-> Effects("getEmployeeHandler", <<"queryRow">>, r.storeErr)]

\* ------------------------------------------------------------------------
\* The inputs of the model
\* ------------------------------------------------------------------------
Bob == <<"b", "o", "b">>
Guests == <<"G", "u", "e", "s", "t", "s">>
SysAdminsUpper == <<"S", "y", "s", ".", "A", "d", "m", "i", "n", "s">>
AdministrationRuLower ==
  <<"ru:a", "ru:d", "ru:m", "ru:i", "ru:n", "ru:i", "ru:s", "ru:t", "ru:r", "ru:a",
    "ru:c", "ru:i", "ru:ya">>
DomainAdminsEn == <<"D", "o", "m", "a", "i", "n", " ", "A", "d", "m", "i", "n", "s">>
QuotedName == <<"a", Quote, Backslash>>

FormUsernames == {<<>>, Bob}
FormPasswords == {<<>>, <<"p", "w">>}

\* The group lists the gateway answers with in the request flows.
GatewayGroupLists ==
  {NilSlice, Slice(<<>>), Slice(<<Guests>>), Slice(<<SysAdmins>>),
   Slice(<<Guests, SysAdmins>>), Slice(<<SysAdminsUpper>>),
   Slice(<<QuotedName, AdministrationRu>>)}

NoReply == [kind |-> "not_called", success |-> FALSE, groups |-> NilSlice]
GatewayReplies ==
  {[kind |-> k, success |-> FALSE, groups |-> NilSlice] :
      k \in {"request_error", "transport_error", "undecodable"}}
  \cup {[kind |-> "json", success |-> b, groups |-> g] :
          b \in BOOLEAN, g \in GatewayGroupLists}

\* Cookies a client writes itself instead of receiving them from a login.
ForgedCookies ==
  {NoCookies,
   [username |-> Cookie(Bob), usergroups |-> NoCookie],
   [username |-> NoCookie, usergroups |-> Cookie(QueryEscape(Marshal(Slice(<<SysAdmins>>))))],
   [username |-> Cookie(Bob), usergroups |-> Cookie(QueryEscape(Marshal(Slice(<<Guests>>))))],
   [username |-> Cookie(Bob), usergroups |-> Cookie(<<"[", "]">>)],
   [username |-> Cookie(<<>>), usergroups |-> Cookie(<<>>)],
   [username |-> Cookie(Bob), usergroups |-> Cookie(<<"[", "%", Hex(Quote)>>)],
   [username |-> Cookie(Bob), usergroups |-> Cookie(Marshal(Slice(<<SysAdmins>>)))]}

RequestTerms == {<<>>, <<" ">>, <<" ", " ">>, <<"a">>, <<"%">>, <<"z">>}
RequestIds == {<<"1">>, <<"2">>, <<"3">>, <<"0", "1">>, <<"7">>, <<"x">>, <<"-", "1">>}

RowUniverse ==
  {Row(1, <<"A", "b">>, <<"c">>, <<>>, <<"d">>, <<"1">>, <<"a", "_">>,
       BuildingEverywhere, <<"z", "z">>, StatusWorks, {}),
   Row(2, <<"A">>, <<"A">>, <<"c">>, <<"d", " ", "d">>, <<"2">>, <<>>,
       BuildingEverywhere, <<"b">>, StatusFired, {}),
   Row(3, <<"B">>, <<"a">>, <<>>, <<"d">>, <<"3">>, <<>>,
       BuildingEverywhere, <<>>, StatusWorks, {"middle_name"}),
   Row(4, <<"A">>, <<"A">>, <<>>, <<"c">>, <<"4">>, <<"a", "%">>,
       BuildingEverywhere, <<>>, StatusWorks, {})}

Tables == {T \in SUBSET RowUniverse : Cardinality(T) <= MaxRows}

\* ------------------------------------------------------------------------
\* State
\* ------------------------------------------------------------------------
VARIABLES
  table,        \* the rows of the employee table
  jar,          \* the client's cookie store
  req,          \* the last request served
  env,          \* what the gateway and the store did while it was served
  resp,         \* its response
  effects,      \* what the handlers did while serving it
  sinceLogout,  \* no login has succeeded since the last GET /logout
  call          \* a single function applied to drawn arguments (SpecCalls)

vars == <<table, jar, req, env, resp, effects, sinceLogout, call>>

ProtectedRoutes == {"/", "/search", "/api/employees", "/api/employees/:id"}

\* hops: the redirects the client followed to come to this request.
NoRequest ==
  [method |-> "", route |-> "", cookies |-> NoCookies, fromJar |-> TRUE,
   username |-> <<>>, password |-> <<>>, query |-> <<>>, id |-> <<>>, hops |-> 0]
NoEnv == [reply |-> NoReply, fault |-> NoFault, sorted |-> <<>>]
NoCall == [fn |-> "none", args |-> <<>>, done |-> FALSE, ret |-> <<>>]

Get(route, c) ==
  [NoRequest EXCEPT !.method = "GET", !.route = route, !.cookies = c.cookies,
                    !.fromJar = c.fromJar]

\* The cookies a request carries: the client's cookie store, or cookies the
\* client wrote itself.
CookieChoices ==
  {[fromJar |-> TRUE, cookies |-> jar]}
  \cup {[fromJar |-> FALSE, cookies |-> f] : f \in ForgedCookies}

Init ==
  /\ table \in Tables
  /\ jar = NoCookies
  /\ req = NoRequest
  /\ env = NoEnv
  /\ resp = NoResponse
  /\ effects = NoEffects
  /\ sinceLogout = FALSE
  /\ call = NoCall

\* A route of the group authorized := router.Group("/") with
\* authorized.Use(authRequired()): the gate, then the route's handler unless
\* the gate aborted the chain. A response the gate has written stays.
Served(request, environment, out) ==
  LET gate == authRequired(request.cookies) IN
  /\ req' = request
  /\ IF gate.aborted
     THEN /\ resp' = gate.resp
          /\ effects' = NoEffects
          /\ env' = NoEnv
     ELSE /\ resp' = IF gate.resp # NoResponse THEN gate.resp ELSE out.resp
          /\ effects' = out.effects
          /\ env' = environment
  /\ UNCHANGED <<table, jar, sinceLogout, call>>

\* A request the client starts itself, not led there by a redirect.
ServeProtected(request, environment, out) ==
  /\ req = NoRequest
  /\ Served(request, environment, out)

GetIndex ==
  \E c \in CookieChoices, sorted \in OrderedBy(table), fault \in Faults :
     ServeProtected(Get("/", c), [NoEnv EXCEPT !.fault = fault, !.sorted = sorted],
                    indexHandler(getSession(c.cookies), sorted, fault))

GetSearch ==
  \E c \in CookieChoices, q \in RequestTerms, sorted \in OrderedBy(table), fault \in Faults :
     ServeProtected([Get("/search", c) EXCEPT !.query = q],
                    [NoEnv EXCEPT !.fault = fault, !.sorted = sorted],
                    searchHandler(getSession(c.cookies), q, sorted, fault))

GetApiEmployees ==
  \E c \in CookieChoices, sorted \in OrderedBy(table), fault \in Faults :
     ServeProtected(Get("/api/employees", c),
                    [NoEnv EXCEPT !.fault = fault, !.sorted = sorted],
                    apiEmployeesHandler(sorted, fault))

GetEmployee ==
  \E c \in CookieChoices, id \in RequestIds, fault \in {f \in Faults : f.kind # "iter"} :
     ServeProtected([Get("/api/employees/:id", c) EXCEPT !.id = id],
                    [NoEnv EXCEPT !.fault = IF Atoi(id).err THEN NoFault ELSE fault],
                    getEmployeeHandler(id, table, fault))

GetLogin ==
  \E c \in CookieChoices :
     /\ req = NoRequest
     /\ req' = Get("/login", c)
     /\ resp' = loginHandler(c.cookies)
     /\ effects' = [NoEffects EXCEPT !.handler = "loginHandler"]
     /\ env' = NoEnv
     /\ UNCHANGED <<table, jar, sinceLogout, call>>

PostLogin ==
  \E u \in FormUsernames, p \in FormPasswords, reply \in GatewayReplies :
     LET out == loginPostHandler(u, p, reply) IN
     /\ req = NoRequest
     /\ req' = [NoRequest EXCEPT !.method = "POST", !.route = "/login",
                                 !.username = u, !.password = p]
     /\ resp' = out.resp
     /\ effects' = out.effects
     /\ env' = [NoEnv EXCEPT !.reply = IF out.effects.gatewayCalls > 0 THEN reply
                                       ELSE NoReply]
     /\ jar' = ApplySetCookies(jar, out.resp.setCookies)
     /\ sinceLogout' = IF out.resp.setCookies # <<>> THEN FALSE ELSE sinceLogout
     /\ UNCHANGED <<table, call>>

GetLogout ==
  \E c \in CookieChoices :
     /\ req = NoRequest
     /\ req' = Get("/logout", c)
     /\ resp' = logoutHandler
     /\ effects' = [NoEffects EXCEPT !.handler = "logoutHandler"]
     /\ env' = NoEnv
     /\ jar' = ApplySetCookies(jar, logoutHandler.setCookies)
     /\ sinceLogout' = TRUE
     /\ UNCHANGED <<table, call>>

\* The request a client sends when it follows the redirect of the last
\* response: a GET of the Location, with the cookies of its store, or again
\* the cookies it wrote itself.
Follow(route) ==
  [Get(route, [fromJar |-> req.fromJar,
               cookies |-> IF req.fromJar THEN jar ELSE req.cookies])
     EXCEPT !.hops = req.hops + 1]

\* c.Redirect(http.StatusFound, "/login") of the gate or of logoutHandler, followed.
FollowToLogin ==
  /\ resp.status = 302 /\ resp.location = "/login"
  /\ req.hops < MaxHops
  /\ req' = Follow("/login")
  /\ resp' = loginHandler(Follow("/login").cookies)
  /\ effects' = [NoEffects EXCEPT !.handler = "loginHandler"]
  /\ env' = NoEnv
  /\ UNCHANGED <<table, jar, sinceLogout, call>>

\* c.Redirect(http.StatusFound, "/") of loginHandler or loginPostHandler, followed.
FollowToIndex ==
  /\ resp.status = 302 /\ resp.location = "/"
  /\ req.hops < MaxHops
  /\ \E sorted \in OrderedBy(table), fault \in Faults :
        Served(Follow("/"), [NoEnv EXCEPT !.fault = fault, !.sorted = sorted],
               indexHandler(getSession(Follow("/").cookies), sorted, fault))

\* The hour of SessionMaxAge passes: the client drops both cookies.
CookiesExpire ==
  /\ jar # NoCookies
  /\ jar' = NoCookies
  /\ UNCHANGED <<table, req, env, resp, effects, sinceLogout, call>>

\* The response has gone out: nothing of the request stays in the server.
Finish ==
  /\ req # NoRequest
  /\ req' = NoRequest
  /\ env' = NoEnv
  /\ resp' = NoResponse
  /\ effects' = NoEffects
  /\ UNCHANGED <<table, jar, sinceLogout, call>>

Next ==
  \/ GetIndex
  \/ GetSearch
  \/ GetApiEmployees
  \/ GetEmployee
  \/ GetLogin
  \/ PostLogin
  \/ GetLogout
  \/ FollowToLogin
  \/ FollowToIndex
  \/ Finish
  \/ CookiesExpire

Spec == Init /\ [][Next]_vars


\* ------------------------------------------------------------------------
\* Single functions applied to drawn arguments
\* ------------------------------------------------------------------------
GroupNames ==
  {SysAdmins, SysAdminsUpper, Guests, DomainAdminsRu, AdministrationRu,
   AdministrationRuLower, DomainAdminsEn, QuotedName}
GroupLists == {NilSlice} \cup {Slice(g) : g \in SeqsUpTo(GroupNames, MaxGroups)}

SessionUsernames == {<<>>, Bob, <<"a", Quote, " ">>}

ForgedChars == {"[", "]", ",", Quote, Hex(Quote), "%", "a"}
\* Values of the usergroups cookie as the client sends them: every short
\* text, what setSession writes, and some JSON texts that are not a list of
\* strings.
GroupCookieValues ==
  SeqsUpTo(ForgedChars, MaxForgedLen)
  \cup {QueryEscape(Marshal(g)) :
          g \in {NilSlice, Slice(<<Guests>>), Slice(<<SysAdmins, QuotedName>>)}}
  \cup {QueryEscape(v) :
          v \in {<<Quote, "a", Quote>>, <<"[", "[", "]", "]">>,
                 <<"[", "n", "u", "l", "l", "]">>,
                 <<"[", Quote, "a", Quote, ",", "[", "]", "]">>,
                 <<"[", Quote, "a", Quote, ",", "]">>}}
SessionCookies ==
  {[username |-> u, usergroups |-> g] :
     u \in {NoCookie, Cookie(<<>>), Cookie(Bob)},
     g \in {NoCookie} \cup {Cookie(v) : v \in GroupCookieValues}}

TermChars == {"a", "A", "b", "%", "_", Backslash, " ", "ru:e"}
SearchTerms == SeqsUpTo(TermChars, MaxTermLen) \ {<<>>}

PendingCalls ==
  {[fn |-> "getSession", args |-> c, done |-> FALSE, ret |-> <<>>] : c \in SessionCookies}
  \cup {[fn |-> "roundTrip", args |-> [username |-> u, groups |-> g], done |-> FALSE,
         ret |-> <<>>] : u \in SessionUsernames, g \in GroupLists}
  \cup {[fn |-> "hasAccess", args |-> g, done |-> FALSE, ret |-> <<>>] : g \in GroupLists}
  \cup UNION {{[fn |-> "searchEmployees", args |-> [rows |-> t, sorted |-> o, query |-> q],
                done |-> FALSE, ret |-> <<>>] : o \in OrderedBy(t), q \in SearchTerms} :
                  t \in {T \in Tables : \A r \in T : r.nulls = {}}}

CallsInit ==
  /\ table = {}
  /\ jar = NoCookies
  /\ req = NoRequest
  /\ env = NoEnv
  /\ resp = NoResponse
  /\ effects = NoEffects
  /\ sinceLogout = FALSE
  /\ call \in PendingCalls

Return(value) ==
  /\ call' = [call EXCEPT !.done = TRUE, !.ret = value]
  /\ UNCHANGED <<table, jar, req, env, resp, effects, sinceLogout>>

CallGetSession ==
  /\ call.fn = "getSession" /\ ~call.done
  /\ Return(getSession(call.args))

\* setSession(c, username, groups), the client stores the cookies, and
\* getSession on its next request.
CallRoundTrip ==
  /\ call.fn = "roundTrip" /\ ~call.done
  /\ Return(getSession(ApplySetCookies(NoCookies,
                                       setSession(call.args.username, call.args.groups))))

CallHasAccess ==
  /\ call.fn = "hasAccess" /\ ~call.done
  /\ Return(hasAccess(call.args))

CallSearchEmployees ==
  /\ call.fn = "searchEmployees" /\ ~call.done
  /\ Return(searchEmployees(call.args.sorted, call.args.query, NoFault))

CallsNext ==
  \/ CallGetSession
  \/ CallRoundTrip
  \/ CallHasAccess
  \/ CallSearchEmployees

SpecCalls == CallsInit /\ [][CallsNext]_vars


\* ------------------------------------------------------------------------
\* Properties
\* ------------------------------------------------------------------------
AllowListSet == {DomainAdminsRu, SysAdmins, AdministrationRu}

\* C1: a request to a protected route whose identity is not authenticated is
\* answered with a redirect to /login and nothing else happens for it: the
\* route's handler does not run and no store query is issued.
C1_GateStopsUnauthenticated ==
  (req.route \in ProtectedRoutes /\ ~getSession(req.cookies).LoggedIn)
    => /\ resp = Redirect("/login")
       /\ effects.handler = "none"
       /\ effects.queries = <<>>

C1_Witness ==
  /\ req.route = "/search"
  /\ req.cookies.username.present /\ ~req.cookies.usergroups.present
  /\ resp.status = 302 /\ resp.location = "/login"

\* C2: POST /login writes the two session cookies exactly when the gateway
\* was called, answered success=true, and its groups meet the allow-list; in
\* every other outcome no cookie is written and the login page is rendered
\* with a message, not a redirect.
C2_SessionIffGatewayAndPolicy ==
  (req.method = "POST" /\ req.route = "/login")
    => LET established == resp.setCookies # <<>>
           granted == /\ effects.gatewayCalls = 1
                      /\ env.reply.kind = "json"
                      /\ env.reply.success
                      /\ ElemSet(env.reply.groups) \cap AllowListSet # {}
       IN /\ established <=> granted
          /\ established
               => /\ Len(resp.setCookies) = 2
                  /\ resp.setCookies[1].name = "username"
                  /\ QueryUnescape(resp.setCookies[1].value).value = req.username
                  /\ resp.setCookies[2].name = "usergroups"
                  /\ QueryUnescape(resp.setCookies[2].value).value
                       = Marshal(env.reply.groups)
                  /\ \A i \in 1..2 : resp.setCookies[i].maxAge > 0
                  /\ resp.status = 302 /\ resp.location = "/"
          /\ ~established
               => /\ resp.status = 200 /\ resp.view = "login.html"
                  /\ resp.error # "" /\ resp.location = ""

C2_Witness ==
  /\ req.method = "POST" /\ req.route = "/login"
  /\ resp.setCookies # <<>>
  /\ Len(env.reply.groups.elems) = 2
  /\ jar.usergroups.present

\* C3: getSession answers the zero session (not authenticated, empty
\* username, no groups) whenever a cookie is missing or the usergroups value
\* does not decode, as JSON, to a list of strings.
C3_UndecodableGroupsNotAuthenticated ==
  (call.fn = "getSession" /\ call.done)
    => LET c == call.args
           bad == \/ ctxCookie(c.username).err
                  \/ ctxCookie(c.usergroups).err
                  \/ Unmarshal(ctxCookie(c.usergroups).value).err # "none"
       IN bad => call.ret = ZeroSession

\* C4: setSession(u, G), then getSession on the cookies the client stored,
\* gives an authenticated session with username u and the groups of G.
C4_RoundTrip ==
  (call.fn = "roundTrip" /\ call.done)
    => /\ call.ret.LoggedIn
       /\ call.ret.Username = call.args.username
       /\ ElemSet(call.ret.Groups) = ElemSet(call.args.groups)

C4_Witness ==
  /\ call.fn = "roundTrip" /\ call.done
  /\ call.args.groups = Slice(<<QuotedName, Guests>>)
  /\ call.ret.Groups.elems = <<QuotedName, Guests>>
  /\ call.ret.Username = <<"a", Quote, " ">>

\* C5: hasAccess(G) is true exactly when some element of G equals, character
\* for character, one of the three allowed names; so not for the empty list
\* and not for a name that differs from an allowed one in letter case.
C5_AllowedIffIntersects ==
  (call.fn = "hasAccess" /\ call.done)
    => /\ call.ret <=> (ElemSet(call.args) \cap AllowListSet # {})
       /\ call.args.elems = <<>> => ~call.ret
       /\ ElemSet(call.args) \subseteq {SysAdminsUpper, AdministrationRuLower} => ~call.ret

C5_Witness ==
  /\ call.fn = "hasAccess" /\ call.done
  /\ call.args = Slice(<<SysAdminsUpper, AdministrationRu>>)
  /\ call.ret = TRUE

\* C6: GET /logout rewrites both cookies with immediate expiry, whatever the
\* client's cookies were; from then until a POST /login succeeds the client
\* holds no session cookie and each of its requests to a protected route is
\* redirected to /login.
C6_LogoutClearsSession ==
  /\ req.route = "/logout"
       => /\ Len(resp.setCookies) = 2
          /\ {resp.setCookies[i].name : i \in 1..2} = {"username", "usergroups"}
          /\ \A i \in 1..2 : resp.setCookies[i].maxAge < 0
  /\ sinceLogout => jar = NoCookies
  /\ (sinceLogout /\ req.route \in ProtectedRoutes /\ req.fromJar)
       => resp = Redirect("/login") /\ effects.handler = "none"

C6_Witness ==
  /\ req.route = "/logout"
  /\ getSession(req.cookies).LoggedIn
  /\ sinceLogout
  /\ jar = NoCookies

\* C7: a store-layer error while a request is served (the query fails, a row
\* does not scan, the row iteration ends on an error) is answered with
\* status 500: never 200 with the rows read so far, never 404.
C7_StoreErrorIs500 ==
  effects.storeErr # "none" => resp.status = 500

\* C8: when the store answers the query, getById returns the record with the
\* requested id if the table holds one and 404 if it holds none, and never a
\* zero-valued Employee with status 200.
C8_GetByIdRecordOrNotFound ==
  (effects.handler = "getEmployeeHandler" /\ ~Atoi(req.id).err /\ env.fault = NoFault)
    => LET id == Atoi(req.id).n IN
       /\ (\E r \in table : r.id = id)
            => /\ resp.status = 200
               /\ Len(resp.employees) = 1
               /\ resp.employees[1].ID = id
       /\ (~\E r \in table : r.id = id) => resp.status = 404
       /\ ~(resp.status = 200 /\ resp.employees = <<ZeroEmployee>>)

IsBlank(s) == \A i \in 1..Len(s) : s[i] = " "

\* C9 as stated: a search whose term is empty or only whitespace takes the
\* list-all path and answers what listAll answers.
C9_BlankTermListsAll ==
  (effects.handler = "searchHandler" /\ IsBlank(req.query))
    => /\ effects.queries = <<"getEmployees">>
       /\ resp.employees = getEmployees(env.sorted, env.fault).employees

\* C9 amended: a search whose term is empty never reaches searchEmployees: it
\* issues the query of listAll and answers every row of the table, in the
\* order the store returned them.
C9_EmptyTermListsAll ==
  (effects.handler = "searchHandler" /\ req.query = <<>>)
    => /\ effects.queries = <<"getEmployees">>
       /\ resp.searchQuery = <<>>
       /\ effects.storeErr = "none"
            => /\ resp.status = 200
               /\ Len(resp.employees) = Cardinality(table)
               /\ \A i \in 1..Len(resp.employees) : resp.employees[i].ID = env.sorted[i].id
               /\ \A i, j \in 1..Len(resp.employees) :
                     i < j => KeyLessEq(env.sorted[i], env.sorted[j])

C9_Witness ==
  /\ effects.handler = "searchHandler" /\ req.query = <<>>
  /\ resp.status = 200
  /\ Len(resp.employees) = 2

\* C10: search(term) returns a record exactly when the term, letter case
\* aside and every character of it taken literally, is a substring of one of
\* last name, first name, middle name, position, phone and email.
C10_SearchIsLiteralSubstring ==
  (call.fn = "searchEmployees" /\ call.done)
    => \A r \in call.args.rows :
          (\E i \in 1..Len(call.ret.employees) : call.ret.employees[i].ID = r.id)
            <=> (\E col \in SearchColumns :
                    Contains(LowerStr(r[col]), LowerStr(call.args.query)))

\* C11: each POST /login ends in exactly one of five outcomes, decided in this
\* order: a field is empty (the gateway is not called); else the gateway is
\* called once and the call failed or its answer did not decode; else the
\* answer says success=false, reported with another message than a failed
\* call; else the groups meet no allowed name; else the session is written.
C11_LoginOutcomesInOrder ==
  (req.method = "POST" /\ req.route = "/login")
    => LET invalid == req.username = <<>> \/ req.password = <<>>
           failed == env.reply.kind \in {"request_error", "transport_error", "undecodable"}
           rejected == env.reply.kind = "json" /\ ~env.reply.success
           denied == ElemSet(env.reply.groups) \cap AllowListSet = {}
           outcome == IF invalid THEN "AuthInputInvalid"
                      ELSE IF failed THEN "GatewayUnreachable"
                      ELSE IF rejected THEN "CredentialsRejected"
                      ELSE IF denied THEN "AccessDenied"
                      ELSE "SessionEstablished"
           shown == [AuthInputInvalid    |-> LoginPage(MsgMissing),
                     GatewayUnreachable  |-> LoginPage(MsgGateway),
                     CredentialsRejected |-> LoginPage(MsgRejected),
                     AccessDenied        |-> LoginPage(MsgDenied)]
       IN /\ effects.gatewayCalls = IF invalid THEN 0 ELSE 1
          /\ invalid => env.reply = NoReply
          /\ outcome # "SessionEstablished" => resp = shown[outcome]
          /\ outcome = "SessionEstablished"
               => resp.status = 302 /\ resp.location = "/" /\ resp.setCookies # <<>>
          /\ \A a, b \in DOMAIN shown : a # b => shown[a] # shown[b]

C11_Witness ==
  /\ req.method = "POST" /\ req.route = "/login"
  /\ env.reply.kind = "undecodable"
  /\ effects.gatewayCalls = 1
  /\ resp.error = MsgGateway

C13_NoRedirectLoop ==
  /\ req.hops <= 2
  /\ req.hops = 2 => resp.status # 302
  /\ (req.method = "GET" /\ req.route = "/login")
       => /\ resp = Redirect("/") <=> ~authRequired(req.cookies).aborted
          /\ resp # Redirect("/") => resp = LoginPage("")
  /\ req.route \in ProtectedRoutes
       => (resp = Redirect("/login") <=> loginHandler(req.cookies) = LoginPage(""))
  /\ req.route = "/logout" => resp.status = 302 /\ resp.location = "/login"

C13_Witness ==
  /\ req.hops = 2
  /\ req.route = "/" /\ ~req.fromJar
  /\ getSession(req.cookies).LoggedIn
  /\ effects.handler = "indexHandler"
  /\ resp.status = 200

=============================================================================
